---- MODULE Spec2Model ----
(***************************************************************************)
(* Model of package mux (pxi/mux): the glob matcher Match with its capture *)
(* list Vars (src/mux.go).                                                  *)
(*                                                                         *)
(* Strings are sequences of bytes, a byte is written as a one- or          *)
(* two-letter string: "a", "/", "?", "*", "{", "}" are the ASCII bytes and *)
(* "E2", "98", "BA" are the three bytes of U+263A, the multi-byte code     *)
(* point of TestMatch.  Go indexes strings from 0 and TLA+ sequences from  *)
(* 1: px, tx, nx, vx, nextPx, nextTx keep Go's values and At(s, i) reads    *)
(* the byte at Go index i.                                                 *)
(***************************************************************************)
EXTENDS Integers, Sequences, FiniteSets, TLC

VARIABLES
    pattern, text,    \* Match's arguments (line 31)
    vars,             \* the caller's Vars that Match is given (lines 12, 31)
    key, nx, vx,      \* Match's locals (lines 32-33)
    px, tx,           \* (line 34)
    nextPx, nextTx,   \* (lines 35-36)
    pc,               \* "idle" (no call), "loop" (line 37), "done", "panic"
    ret,              \* what Match returned (lines 82, 87)
    at,               \* history: where in the text each term was taken up
    sets,             \* history: the calls of vars.Set this call has made
    vars0,            \* history: vars as the call found it
    fuel,             \* what the caller of a reused Vars may still spend
    resumes,          \* history: per wildcard, the text indexes it was resumed at
    got,              \* what the caller's last vars.Get returned
    peer,             \* a second, suspended invocation of Match (its locals)
    route, req,       \* ServeHTTP's receiver and req.Method (line 135)
    status, header,   \* the response: status code written (0: none), headers,
    body,             \* body,
    called,           \* and the handlers ServeHTTP has invoked
    hpc               \* "idle", "serve" (ServeHTTP entered), "served"

locals == <<key, nx, vx, px, tx, nextPx, nextTx>>
http == <<route, req, status, header, body, called, hpc>>
allvars == <<pattern, text, vars, key, nx, vx, px, tx, nextPx, nextTx, pc, ret,
             at, sets, vars0, fuel, resumes, got, peer, http>>

(***************************************************************************)
(* Bounds of the model.                                                    *)
(***************************************************************************)
\* Most terms in a pattern of a single Match call.
MaxTerms == 4
\* Most terms of the pattern plus code points of the text of a single call.
MaxSize == 5
\* Most Set calls, pattern terms and text code points, all calls together, that
\* the caller of a reused Vars spends.
MaxFuel == 5

(***************************************************************************)
(* Bytes and strings.                                                      *)
(***************************************************************************)
Smile == <<"E2", "98", "BA">>
ContBytes == {"98", "BA"}
LeadBytes == {"E2"}

\* The pattern terms the inputs are built from: a literal, the separator,
\* '?', '*', two named terms, a lone '{' and a lone '}'.
Terms == { <<"a">>, <<"/">>, <<"?">>, <<"*">>, <<"{", "a", "}">>,
           <<"{", "b", "}">>, <<"{">>, <<"}">> }

\* The code points the texts are built from.
Chars == { <<"a">>, <<"/">>, <<"}">>, Smile }

RECURSIVE Concat(_)
Concat(ss) == IF ss = <<>> THEN <<>> ELSE Head(ss) \o Concat(Tail(ss))

At(s, i) == s[i + 1]

\* Go's s[a:b].
Slice(s, a, b) == SubSeq(s, a + 1, b)

\* strings.IndexByte(s[from:], c)
IndexByte(s, from, c) ==
    IF \E j \in from .. (Len(s) - 1) : At(s, j) = c
    THEN (CHOOSE j \in from .. (Len(s) - 1) :
             At(s, j) = c /\ \A i \in from .. (j - 1) : At(s, i) # c) - from
    ELSE -1

\* The width utf8.DecodeRuneInString(s[i:]) returns: the whole encoding of a
\* well-formed code point, 1 for an ASCII byte and for every ill-formed start.
DecodeRuneLen(s, i) ==
    IF At(s, i) \in LeadBytes /\ i + 2 < Len(s)
       /\ At(s, i + 1) \in ContBytes /\ At(s, i + 2) \in ContBytes
    THEN 3
    ELSE 1

(***************************************************************************)
(* Vars: an ordered list of (k, v) pairs.                                  *)
(***************************************************************************)
HasKey(vs, k) == \E i \in 1 .. Len(vs) : vs[i].k = k

VarsSetAppendAlways(vs, k, v) == Append(vs, [k |-> k, v |-> v])

VarsSet(vs, k, v) ==
    IF HasKey(vs, k)
    THEN LET i == CHOOSE i \in 1 .. Len(vs) :
                      vs[i].k = k /\ \A j \in 1 .. (i - 1) : vs[j].k # k
         IN  [vs EXCEPT ![i] = [k |-> k, v |-> v]]
    ELSE Append(vs, [k |-> k, v |-> v])

VarsResetKeeps(vs) == vs

VarsReset(vs) == <<>>

VarsGetKey(vs, k) == IF HasKey(vs, k) THEN k ELSE <<>>

\* Lines 103-110: the value of the first entry under k, "" without one.
VarsGet(vs, k) ==
    IF HasKey(vs, k)
    THEN LET i == CHOOSE i \in 1 .. Len(vs) :
                      vs[i].k = k /\ \A j \in 1 .. (i - 1) : vs[j].k # k
         IN  vs[i].v
    ELSE <<>>

(***************************************************************************)
(* Match, one action per iteration of its loop.                            *)
(***************************************************************************)
LenP == Len(pattern)
LenT == Len(text)

\* Line 37: the loop runs on.
InLoop == pc = "loop" /\ (px < LenP \/ tx < LenT)

Wildcards == {"*", "{"}

\* Lines 40-41: a literal at px that the text has at tx.
LiteralMatches ==
    /\ px < LenP
    /\ At(pattern, px) \notin {"?", "*", "{"}
    /\ tx < LenT
    /\ At(text, tx) = At(pattern, px)

\* Lines 49-50.
QuestionMatches ==
    /\ px < LenP
    /\ At(pattern, px) = "?"
    /\ tx < LenT
    /\ At(text, tx) # "/"

\* Line 56.
AtWildcard == px < LenP /\ At(pattern, px) \in Wildcards

\* The switch left without a continue (or px at the end of the pattern).
FellThrough == InLoop /\ ~LiteralMatches /\ ~QuestionMatches /\ ~AtWildcard

\* Lines 42 and 84: the byte before px closes a name.
AfterBrace == px > 0 /\ At(pattern, px - 1) = "}"

Finalize(vs) == IF AfterBrace THEN VarsSet(vs, key, Slice(text, vx, tx)) ELSE vs

\* History: at[p] is the text index at which the term at pattern index p was
\* last taken up; for '*' and '{', which a retry resumes further on, the index
\* at which it was first taken up, where its span starts.  resumes[p] lists the
\* text indexes at which a retry took the wildcard at p up again.
Seen == [at EXCEPT ![px] = tx]
SeenFirst == IF at[px] < 0 THEN Seen ELSE at

MatchLiteral ==
    /\ InLoop
    /\ LiteralMatches
    /\ AfterBrace => vx <= tx
    /\ vars' = Finalize(vars)
    /\ sets' = IF AfterBrace THEN sets + 1 ELSE sets
    /\ px' = px + 1
    /\ tx' = tx + 1
    /\ at' = Seen
    /\ UNCHANGED <<pattern, text, key, nx, vx, nextPx, nextTx, pc, ret, vars0, fuel>>
    /\ UNCHANGED <<resumes, got, peer, http>>

MatchQuestion ==
    /\ InLoop
    /\ QuestionMatches
    /\ px' = px + 1
    /\ tx' = tx + DecodeRuneLen(text, tx)
    /\ at' = Seen
    /\ UNCHANGED <<pattern, text, vars, key, nx, vx, nextPx, nextTx, pc, ret,
                   sets, vars0, fuel>>
    /\ UNCHANGED <<resumes, got, peer, http>>

MatchStarKeepsRetryPoint ==
    /\ InLoop
    /\ px < LenP
    /\ At(pattern, px) = "*"
    /\ nextTx' = tx + 1
    /\ px' = px + 1
    /\ at' = SeenFirst
    /\ UNCHANGED <<pattern, text, vars, key, nx, vx, tx, nextPx, pc, ret, sets,
                   vars0, fuel>>
    /\ UNCHANGED <<resumes, got, peer, http>>

MatchStar ==
    /\ InLoop
    /\ px < LenP
    /\ At(pattern, px) = "*"
    /\ nextPx' = px
    /\ nextTx' = tx + 1
    /\ px' = px + 1
    /\ at' = SeenFirst
    /\ UNCHANGED <<pattern, text, vars, key, nx, vx, tx, pc, ret, sets, vars0, fuel>>
    /\ UNCHANGED <<resumes, got, peer, http>>

\* Line 63: the name at px was not read yet.
NewName == nx < px + 1

\* Line 65.
NameEnd == px + 1 + IndexByte(pattern, px + 1, "}")

MatchName ==
    /\ InLoop
    /\ px < LenP
    /\ At(pattern, px) = "{"
    /\ NewName => px + 1 <= NameEnd
    /\ nextPx' = px
    /\ nextTx' = tx + 1
    /\ vx' = IF NewName THEN tx ELSE vx
    /\ nx' = IF NewName THEN NameEnd ELSE nx
    /\ key' = IF NewName THEN Slice(pattern, px + 1, NameEnd) ELSE key
    /\ px' = px + 1 + Len(key') + 1
    /\ at' = SeenFirst
    /\ UNCHANGED <<pattern, text, vars, tx, pc, ret, sets, vars0, fuel>>
    /\ UNCHANGED <<resumes, got, peer, http>>

\* Line 66 with no '}' after px: pattern[px:nx] has nx < px.  Lines 43 and
\* 85: text[vx:tx] with vx > tx.
PanicSlice ==
    /\ \/ /\ InLoop
          /\ px < LenP
          /\ At(pattern, px) = "{"
          /\ NewName
          /\ NameEnd < px + 1
       \/ /\ InLoop
          /\ LiteralMatches
          /\ AfterBrace
          /\ vx > tx
       \/ /\ pc = "loop"
          /\ ~InLoop
          /\ AfterBrace
          /\ vx > tx
    /\ pc' = "panic"
    /\ UNCHANGED <<pattern, text, vars, locals, ret, at, sets, vars0, fuel>>
    /\ UNCHANGED <<resumes, got, peer, http>>

\* Line 77 is reached and holds.
CanResume ==
    /\ nextTx <= LenT
    /\ nextPx < LenP
    /\ At(pattern, nextPx) \in Wildcards
    /\ nextTx > 0
    /\ At(text, nextTx - 1) # "/"

\* Line 77: pattern[px] or text[tx-1] out of range.
IndexOutOfRange ==
    /\ nextTx <= LenT
    /\ \/ nextPx >= LenP
       \/ nextPx < LenP /\ At(pattern, nextPx) \in Wildcards /\ nextTx = 0

Retry ==
    /\ FellThrough
    /\ CanResume
    /\ px' = nextPx
    /\ tx' = nextTx
    /\ UNCHANGED <<pattern, text, vars, key, nx, vx, nextPx, nextTx, pc, ret,
                   at, sets, vars0, fuel>>
    /\ resumes' = [resumes EXCEPT ![nextPx] = Append(@, nextTx)]
    /\ UNCHANGED <<got, peer, http>>

PanicIndex ==
    /\ FellThrough
    /\ IndexOutOfRange
    /\ px' = nextPx
    /\ tx' = nextTx
    /\ pc' = "panic"
    /\ UNCHANGED <<pattern, text, vars, key, nx, vx, nextPx, nextTx, ret, at,
                   sets, vars0, fuel>>
    /\ UNCHANGED <<resumes, got, peer, http>>

\* Lines 81-82.
Fail ==
    /\ FellThrough
    /\ ~CanResume
    /\ ~IndexOutOfRange
    /\ px' = IF nextTx <= LenT THEN nextPx ELSE px
    /\ tx' = IF nextTx <= LenT THEN nextTx ELSE tx
    /\ vars' = VarsReset(vars)
    /\ ret' = FALSE
    /\ pc' = "done"
    /\ UNCHANGED <<pattern, text, key, nx, vx, nextPx, nextTx, at, sets, vars0, fuel>>
    /\ UNCHANGED <<resumes, got, peer, http>>

\* Lines 84-87.
Exit ==
    /\ pc = "loop"
    /\ ~InLoop
    /\ AfterBrace => vx <= tx
    /\ vars' = Finalize(vars)
    /\ sets' = IF AfterBrace THEN sets + 1 ELSE sets
    /\ ret' = TRUE
    /\ pc' = "done"
    /\ UNCHANGED <<pattern, text, locals, at, vars0, fuel>>
    /\ UNCHANGED <<resumes, got, peer, http>>

MatchStep ==
    \/ MatchLiteral
    \/ MatchQuestion
    \/ MatchStar
    \/ MatchName
    \/ Retry
    \/ Fail
    \/ Exit
    \/ PanicSlice
    \/ PanicIndex

\* The state between two calls: no Match is running.
Idle ==
    /\ pattern = <<>>
    /\ text = <<>>
    /\ key = <<>>
    /\ nx = 0 /\ vx = 0 /\ px = 0 /\ tx = 0 /\ nextPx = 0 /\ nextTx = 0
    /\ pc = "idle"
    /\ ret = FALSE
    /\ at = [i \in 0 .. 0 |-> -1]
    /\ sets = 0
    /\ vars0 = <<>>
    /\ resumes = [i \in 0 .. 0 |-> <<>>]

\* Lines 31-36: Match(p, t, &vars) is entered.
Call(p, t) ==
    /\ pc = "idle"
    /\ pattern' = p
    /\ text' = t
    /\ vars0' = vars
    /\ key' = <<>>
    /\ nx' = 0 /\ vx' = 0 /\ px' = 0 /\ tx' = 0 /\ nextPx' = 0 /\ nextTx' = 0
    /\ pc' = "loop"
    /\ ret' = FALSE
    /\ at' = [i \in 0 .. Len(p) |-> -1]
    /\ sets' = 0
    /\ UNCHANGED vars
    /\ resumes' = [i \in 0 .. Len(p) |-> <<>>]
    /\ UNCHANGED <<got, http>>

\* Match has returned; its locals are gone.
Return ==
    /\ pc = "done"
    /\ pattern' = <<>>
    /\ text' = <<>>
    /\ key' = <<>>
    /\ nx' = 0 /\ vx' = 0 /\ px' = 0 /\ tx' = 0 /\ nextPx' = 0 /\ nextTx' = 0
    /\ pc' = "idle"
    /\ ret' = FALSE
    /\ at' = [i \in 0 .. 0 |-> -1]
    /\ sets' = 0
    /\ vars0' = <<>>
    /\ UNCHANGED <<vars, fuel>>
    /\ resumes' = [i \in 0 .. 0 |-> <<>>]
    /\ UNCHANGED <<got, peer, http>>

\* Match(p, t, &vars) for a pattern p of i of the terms and a text t of j of
\* the code points.
CallOn(terms, i, chars, j) ==
    \E ps \in [1 .. i -> terms] : \E cs \in [1 .. j -> chars] :
        Call(Concat(ps), Concat(cs))

\* No request is being served.
NoRequest ==
    /\ route = {}
    /\ req = <<>>
    /\ status = 0
    /\ header = <<>>
    /\ body = <<>>
    /\ called = <<>>
    /\ hpc = "idle"

\* A fresh Vars{}; nothing runs.
Init ==
    /\ Idle
    /\ vars = <<>>
    /\ fuel = MaxFuel
    /\ got = <<>>
    /\ peer = <<>>
    /\ NoRequest

\* One call of Match on a fresh Vars, as TestMatch makes it.
CallMatch ==
    /\ pc = "idle"
    /\ \E i \in 0 .. MaxTerms : \E j \in 0 .. (MaxSize - i) :
          CallOn(Terms, i, Chars, j)
    /\ UNCHANGED <<fuel, peer>>

Next == CallMatch \/ MatchStep

Spec == Init /\ [][Next]_allvars

(***************************************************************************)
(* A Vars that its caller reuses: Set, Reset and Match in any order.       *)
(***************************************************************************)
ReuseTerms == { <<"a">>, <<"?">>, <<"*">>, <<"{", "a", "}">>, <<"{", "b", "}">>,
                <<"{">> }
ReuseChars == { <<"a">>, <<"/">> }
SetKeys == { <<"a">>, <<"b">> }
SetVals == { <<>>, <<"/">> }

CallSet(k, v) ==
    /\ pc = "idle"
    /\ fuel > 0
    /\ fuel' = fuel - 1
    /\ vars' = VarsSet(vars, k, v)
    /\ UNCHANGED <<pattern, text, locals, pc, ret, at, sets, vars0>>
    /\ UNCHANGED <<resumes, got, peer, http>>

CallReset ==
    /\ pc = "idle"
    /\ vars' = VarsReset(vars)
    /\ UNCHANGED <<pattern, text, locals, pc, ret, at, sets, vars0, fuel>>
    /\ UNCHANGED <<resumes, got, peer, http>>

\* value := vars.Get(k)
CallGet(k) ==
    /\ pc = "idle"
    /\ fuel > 0
    /\ fuel' = fuel - 1
    /\ got' = VarsGet(vars, k)
    /\ UNCHANGED <<pattern, text, vars, locals, pc, ret, at, sets, vars0>>
    /\ UNCHANGED <<resumes, peer, http>>

CallMatchReuse ==
    /\ pc = "idle"
    /\ \E i \in 0 .. fuel : \E j \in 0 .. (fuel - i) :
          /\ i <= MaxTerms
          /\ CallOn(ReuseTerms, i, ReuseChars, j)
          /\ fuel' = fuel - (i + j)
    /\ UNCHANGED peer

NextVars ==
    \/ \E k \in SetKeys, v \in SetVals : CallSet(k, v)
    \/ CallReset
    \/ \E k \in SetKeys : CallGet(k)
    \/ CallMatchReuse
    \/ MatchStep
    \/ Return

SpecVars == Init /\ [][NextVars]_allvars

(***************************************************************************)
(* The pattern syntax of Match's documentation, and what a finished call   *)
(* did with it.                                                            *)
(***************************************************************************)
\* The terms of p from Go index i on: "lit" c, "any" ('?'), "star" ('*') and
\* "name" ('{' name '}', the name running to the end of p when no '}' follows);
\* pos and end are the term's first index and the index after it.
RECURSIVE ParseFrom(_, _)
ParseFrom(p, i) ==
    IF i >= Len(p) THEN <<>>
    ELSE LET c == At(p, i)
             j == IndexByte(p, i + 1, "}")
             close == IF j < 0 THEN Len(p) ELSE i + 1 + j
             e == IF c = "{" THEN (IF j < 0 THEN Len(p) ELSE close + 1)
                  ELSE IF c \in {"*", "?"} THEN i + 1
                  ELSE i + DecodeRuneLen(p, i)
             t == [kind |-> IF c = "{" THEN "name"
                            ELSE IF c = "*" THEN "star"
                            ELSE IF c = "?" THEN "any" ELSE "lit",
                   pos |-> i,
                   end |-> e,
                   s |-> IF c = "{" THEN Slice(p, i + 1, close) ELSE Slice(p, i, e)]
         IN  <<t>> \o ParseFrom(p, e)

ParseTerms(p) == ParseFrom(p, 0)

\* The code points of t from Go index i on, each with its first index and the
\* index after it.
RECURSIVE DecodeFrom(_, _)
DecodeFrom(t, i) ==
    IF i >= Len(t) THEN <<>>
    ELSE LET e == i + DecodeRuneLen(t, i)
         IN  <<[pos |-> i, end |-> e, s |-> Slice(t, i, e)]>> \o DecodeFrom(t, e)

Decode(t) == DecodeFrom(t, 0)

Range(f) == { f[i] : i \in DOMAIN f }

\* The reference semantics: the terms ts from the i-th on account for the
\* code points cs from the j-th on.
RECURSIVE RefMatch(_, _, _, _)
RefMatch(ts, i, cs, j) ==
    IF i > Len(ts) THEN j > Len(cs)
    ELSE IF ts[i].kind = "lit"
         THEN j <= Len(cs) /\ cs[j].s = ts[i].s /\ RefMatch(ts, i + 1, cs, j + 1)
    ELSE IF ts[i].kind = "any"
         THEN j <= Len(cs) /\ cs[j].s # <<"/">> /\ RefMatch(ts, i + 1, cs, j + 1)
    ELSE \E n \in j .. (Len(cs) + 1) :
             /\ \A m \in j .. (n - 1) : cs[m].s # <<"/">>
             /\ RefMatch(ts, i + 1, cs, n)

Matches(p, t) == RefMatch(ParseTerms(p), 1, Decode(t), 1)

PatternTerms == ParseTerms(pattern)

\* The names of the {name} terms of the pattern.
Names == { t.s : t \in { u \in Range(PatternTerms) : u.kind = "name" } }

\* The first and the last {name} term of name k.
FirstNamed(k) ==
    CHOOSE n \in 1 .. Len(PatternTerms) :
        /\ PatternTerms[n].kind = "name" /\ PatternTerms[n].s = k
        /\ \A m \in 1 .. (n - 1) : ~(PatternTerms[m].kind = "name" /\ PatternTerms[m].s = k)

LastNamed(k) ==
    CHOOSE n \in 1 .. Len(PatternTerms) :
        /\ PatternTerms[n].kind = "name" /\ PatternTerms[n].s = k
        /\ \A m \in (n + 1) .. Len(PatternTerms) :
               ~(PatternTerms[m].kind = "name" /\ PatternTerms[m].s = k)

Returned == pc = "done"
Succeeded == pc = "done" /\ ret
Failed == pc = "done" /\ ~ret

\* After a success: the text the term t consumed, from where the loop took
\* the term up to where it took up the next one (or the end).
SpanEnd(t) == IF t.end >= LenP THEN tx ELSE at[t.end]
TermSpan(t) == Slice(text, at[t.pos], SpanEnd(t))

Keys(vs) == { vs[i].k : i \in 1 .. Len(vs) }

(***************************************************************************)
(* C1.  Match returns true exactly when the pattern, read left to right    *)
(* under the reference semantics, accounts for the whole text.             *)
(* Refuted by the code: see C6 ('?' after a retried '*' takes one byte of  *)
(* a code point).                                                          *)
(***************************************************************************)
C1_MatchIsReference == Returned => (ret <=> Matches(pattern, text))

(***************************************************************************)
(* C2.  Whenever Match returns false, vars is empty on return, whatever it *)
(* held on entry and whatever Set bound during the call.                   *)
(***************************************************************************)
C2_FailedMatchLeavesVarsEmpty == Failed => vars = <<>>

\* A failed call that was entered with bindings and that called Set.
C2_Witness == Failed /\ vars0 # <<>> /\ sets > 0

(***************************************************************************)
(* C3.  Whenever Match returns true on an initially empty vars, vars holds *)
(* exactly one entry for each distinct name of a {name} term and no entry  *)
(* under another key, whatever follows the term.                           *)
(* Refuted by the code: the binding is made only by a literal that follows *)
(* the '}' and by the end of the pattern.                                  *)
(***************************************************************************)
C3_OneEntryPerName ==
    (Succeeded /\ vars0 = <<>>) =>
        (Keys(vars) = Names /\ Len(vars) = Cardinality(Names))

(***************************************************************************)
(* C4.  Whenever Match returns true, the value bound to each name is the   *)
(* text the (last) {name} term of that name consumed in the accepted       *)
(* match, never a span extended by later pattern terms.                    *)
(* Refuted by the code: a literal '}' after the term binds again.          *)
(***************************************************************************)
C4_ValueIsTermSpan ==
    Succeeded =>
        \A i \in 1 .. Len(vars) :
            vars[i].k \in Names =>
                vars[i].v = TermSpan(PatternTerms[LastNamed(vars[i].k)])

(***************************************************************************)
(* C5.  In every successful Match the text consumed by each '*' and each   *)
(* {name} term contains no '/', and so no value bound in vars contains '/'.*)
(* Refuted by the code through the binding made after a literal '}'.       *)
(***************************************************************************)
C5_NoSeparatorInWildcard ==
    Succeeded =>
        /\ \A t \in Range(PatternTerms) :
               t.kind \in {"star", "name"} => "/" \notin Range(TermSpan(t))
        /\ \A i \in 1 .. Len(vars) : "/" \notin Range(vars[i].v)

(***************************************************************************)
(* C6.  In every successful Match each '?' term consumed exactly one whole *)
(* code point of the text, and no code point satisfied two '?' terms.      *)
(* Refuted by the code: a retry resumes one byte, not one code point, on.  *)
(***************************************************************************)
C6_QuestionTakesWholeCodePoint ==
    Succeeded =>
        LET qs == { t \in Range(PatternTerms) : t.kind = "any" }
            cps == Range(Decode(text))
            In(t) == { c \in cps : c.pos <= at[t.pos] /\ at[t.pos] < c.end }
        IN  /\ \A t \in qs : \E c \in cps : at[t.pos] = c.pos /\ SpanEnd(t) = c.end
            /\ \A t, u \in qs : t # u => In(t) \cap In(u) = {}

(***************************************************************************)
(* C7.  Match is total: on every pattern, malformed ones included, and     *)
(* every text it returns and reaches no out-of-range index or slice.       *)
(* Refuted by the code: pattern[px:nx] at an unterminated '{' and          *)
(* pattern[px] at an empty pattern are out of range.                       *)
(***************************************************************************)
C7_MatchIsTotal == pc # "panic"

(***************************************************************************)
(* C8.  The empty pattern matches only the empty text: Match("", "") is    *)
(* true and Match("", text) returns false for every non-empty text.        *)
(* Refuted by the code: Match("", text) indexes pattern[0].                *)
(***************************************************************************)
C8_EmptyPattern ==
    (pattern = <<>> /\ pc \in {"done", "panic"}) =>
        (pc = "done" /\ (ret <=> text = <<>>))

(***************************************************************************)
(* C9.  After a successful Match on an initially empty vars the entries of *)
(* vars are ordered by the first appearance of their names in the pattern. *)
(* (The claim's second half, on the values, is C4's.)                      *)
(* Refuted by the code: a name whose first term is not followed by a       *)
(* literal is bound at a later term of that name.                          *)
(***************************************************************************)
C9_EntriesInPatternOrder ==
    (Succeeded /\ vars0 = <<>>) =>
        \A i, j \in 1 .. Len(vars) :
            (i < j /\ vars[i].k \in Names /\ vars[j].k \in Names) =>
                FirstNamed(vars[i].k) < FirstNamed(vars[j].k)

(***************************************************************************)
(* C10.  From an empty Vars, after any sequence of Set, Reset and Match    *)
(* the keys of vars are pairwise distinct; Set(k, v) on a present key      *)
(* replaces that entry's value only, and on an absent key appends (k, v).  *)
(***************************************************************************)
KeysDistinct(vs) == \A i, j \in 1 .. Len(vs) : vs[i].k = vs[j].k => i = j

\* new is old after Set(k, v), said without VarsSet.
IsSet(old, new, k, v) ==
    IF \E i \in 1 .. Len(old) : old[i].k = k
    THEN /\ Len(new) = Len(old)
         /\ \A i \in 1 .. Len(old) :
                new[i] = IF old[i].k = k THEN [k |-> k, v |-> v] ELSE old[i]
    ELSE /\ Len(new) = Len(old) + 1
         /\ new[Len(new)] = [k |-> k, v |-> v]
         /\ \A i \in 1 .. Len(old) : new[i] = old[i]

\* Every step leaves vars alone, empties it, or is a Set; the caller's
\* Set(k, v) is a Set of k and v; Match's is a Set of its key.
C10_SetStep ==
    /\ \A k \in SetKeys, v \in SetVals : CallSet(k, v) => IsSet(vars, vars', k, v)
    /\ sets' = sets + 1 =>
           \E a \in 0 .. LenT : \E b \in a .. LenT :
               IsSet(vars, vars', key, Slice(text, a, b))
    /\ \/ vars' = vars
       \/ vars' = <<>>
       \/ sets' = sets + 1
       \/ \E k \in SetKeys, v \in SetVals : CallSet(k, v)

\* C10: the keys of vars stay pairwise distinct, and every Set replaces in
\* place or appends.
C10_KeysDistinctAndSetInPlace ==
    [](KeysDistinct(vars)) /\ [][C10_SetStep]_allvars

\* Set has replaced the value of a present key, in a list of two.
C10_Witness ==
    /\ pc = "done"
    /\ Len(vars) = 2
    /\ Len(vars0) = 2
    /\ vars # vars0
    /\ sets > 0

(***************************************************************************)
(* C11. Get never fails and never changes vars: Get(k) returns the value   *)
(* given by the most recent Set(k, v) since the last Reset (or failed      *)
(* Match), and the empty string when k is unbound, in particular for every *)
(* key right after Reset.  Step by step: a Get leaves vars alone and       *)
(* returns the value of the entry under k, "" without one; a Set(k, v), the*)
(* caller's or Match's, makes Get(k) = v and leaves Get of every other key *)
(* as it was; a Reset or a failed Match makes Get of every key ""; nothing *)
(* else changes what Get returns.                                          *)
(***************************************************************************)
MatchSets == sets' = sets + 1
MatchFails == pc = "loop" /\ pc' = "done" /\ ~ret'
CallerSets == \E k \in SetKeys, v \in SetVals : CallSet(k, v)

C11_GetStep ==
    LET K == SetKeys \cup Keys(vars) \cup Keys(vars') \cup {key, <<>>}
    IN  /\ \A k \in SetKeys :
              CallGet(k) =>
                  /\ vars' = vars
                  /\ IF HasKey(vars, k)
                     THEN \E i \in 1 .. Len(vars) :
                              vars[i].k = k /\ vars[i].v = got'
                     ELSE got' = <<>>
        /\ \A k \in SetKeys, v \in SetVals :
              CallSet(k, v) =>
                  /\ VarsGet(vars', k) = v
                  /\ \A k2 \in K \ {k} : VarsGet(vars', k2) = VarsGet(vars, k2)
        /\ MatchSets =>
              /\ VarsGet(vars', key) = Slice(text, vx, tx)
              /\ \A k2 \in K \ {key} : VarsGet(vars', k2) = VarsGet(vars, k2)
        /\ (CallReset \/ MatchFails) => \A k \in K : VarsGet(vars', k) = <<>>
        /\ ~(CallerSets \/ MatchSets \/ CallReset \/ MatchFails) =>
              \A k \in K : VarsGet(vars', k) = VarsGet(vars, k)

C11_GetReturnsLastSet == [][C11_GetStep]_allvars

\* A Get has returned a value that a Match bound.
C11_Witness == pc = "idle" /\ got # <<>> /\ got \notin SetVals

(***************************************************************************)
(* Method.ServeHTTP.  A method name is the sequence of its letters; the    *)
(* table is the set of its keys, each key standing for its own handler.    *)
(***************************************************************************)
\* The table holds at most this many handlers.
MaxRoute == 3

UpperCase == <<"A", "B", "C", "D", "E", "F", "G", "H", "I", "J", "K", "L", "M",
               "N", "O", "P", "Q", "R", "S", "T", "U", "V", "W", "X", "Y", "Z">>
LowerCase == <<"a", "b", "c", "d", "e", "f", "g", "h", "i", "j", "k", "l", "m",
               "n", "o", "p", "q", "r", "s", "t", "u", "v", "w", "x", "y", "z">>

IndexIn(letters, c) ==
    IF \E i \in 1 .. Len(letters) : letters[i] = c
    THEN CHOOSE i \in 1 .. Len(letters) : letters[i] = c
    ELSE 0

\* strings.ToUpper, on ASCII.
ToUpper(s) ==
    [i \in 1 .. Len(s) |->
        IF IndexIn(LowerCase, s[i]) > 0
        THEN UpperCase[IndexIn(LowerCase, s[i])] ELSE s[i]]

ToLower(s) ==
    [i \in 1 .. Len(s) |->
        IF IndexIn(UpperCase, s[i]) > 0
        THEN LowerCase[IndexIn(UpperCase, s[i])] ELSE s[i]]

\* The byte order of the letters: 'A' < ... < 'Z' < 'a' < ... < 'z'.
Ord(c) ==
    IF IndexIn(UpperCase, c) > 0 THEN IndexIn(UpperCase, c)
    ELSE IF IndexIn(LowerCase, c) > 0 THEN Len(UpperCase) + IndexIn(LowerCase, c)
    ELSE 0

\* a < b, as Go compares strings.
RECURSIVE StringLess(_, _)
StringLess(a, b) ==
    IF b = <<>> THEN FALSE
    ELSE IF a = <<>> THEN TRUE
    ELSE IF Head(a) # Head(b) THEN Ord(Head(a)) < Ord(Head(b))
    ELSE StringLess(Tail(a), Tail(b))

RECURSIVE Insert(_, _)
Insert(sorted, x) ==
    IF sorted = <<>> THEN <<x>>
    ELSE IF StringLess(x, Head(sorted)) THEN <<x>> \o sorted
    ELSE <<Head(sorted)>> \o Insert(Tail(sorted), x)

\* sort.Strings
RECURSIVE SortStrings(_)
SortStrings(ss) ==
    IF ss = <<>> THEN <<>> ELSE Insert(SortStrings(Tail(ss)), Head(ss))

\* strings.Join
RECURSIVE Join(_, _)
Join(ss, sep) ==
    IF ss = <<>> THEN <<>>
    ELSE IF Len(ss) = 1 THEN Head(ss)
    ELSE Head(ss) \o sep \o Join(Tail(ss), sep)

GET == <<"G", "E", "T">>
POST == <<"P", "O", "S", "T">>
PUT == <<"P", "U", "T">>
MethodOptions == <<"O", "P", "T", "I", "O", "N", "S">>
StatusMethodNotAllowed == 405

\* The keys a table may hold and the methods a request may carry.
MethodKeys == UNION { {w, ToLower(w)} : w \in {GET, POST, PUT, MethodOptions} }
RequestMethods == MethodKeys \cup { <<"G", "e", "t">>, <<"O", "p", "t", "i", "o", "n", "s">> }
Routes == { r \in SUBSET MethodKeys : Cardinality(r) <= MaxRoute }

\* Everything but the request and its response.
match == <<pattern, text, vars, locals, pc, ret, at, sets, vars0, fuel, resumes,
           got, peer>>

\* A request with method m reaches the table r: ServeHTTP is entered.
Receive(r, m) ==
    /\ hpc = "idle"
    /\ route' = r
    /\ req' = m
    /\ status' = 0
    /\ header' = <<>>
    /\ body' = <<>>
    /\ called' = <<>>
    /\ hpc' = "serve"
    /\ UNCHANGED match

methodAsSent == req

\* Line 135
method == ToUpper(req)

\* rw.Header().Set(name, value)
HeaderSet(h, name, value) ==
    [n \in DOMAIN h \cup {name} |-> IF n = name THEN value ELSE h[n]]

\* Lines 136-140: the handler under method serves the request.
Dispatch ==
    /\ hpc = "serve"
    /\ method \in route
    /\ called' = Append(called, method)
    /\ hpc' = "served"
    /\ UNCHANGED <<route, req, status, header, body, match>>

\* The orders in which `for k := range route` may visit the keys.
RangeOrders(r) ==
    { f \in [1 .. Cardinality(r) -> r] :
        \A i, j \in 1 .. Cardinality(r) : f[i] = f[j] => i = j }

AllowKeepsOptions(ks) == <<MethodOptions>> \o [i \in 1 .. Len(ks) |-> ToUpper(ks[i])]

\* Lines 142-149: OPTIONS, then the upper-cased keys other than OPTIONS.
Allow(ks) ==
    <<MethodOptions>> \o
    SelectSeq([i \in 1 .. Len(ks) |-> ToUpper(ks[i])], LAMBDA k : k # MethodOptions)

\* http.Error(rw, "405 method not allowed", code)
HttpError ==
    /\ status' = StatusMethodNotAllowed
    /\ body' = <<"405 method not allowed", "\n">>

\* Lines 142-154: no handler under method.
NotFound ==
    /\ hpc = "serve"
    /\ method \notin route
    /\ \E ks \in RangeOrders(route) :
          LET allow == Join(SortStrings(Allow(ks)), <<",", " ">>)
              h == HeaderSet(header, "Allow", allow)
          IN  IF method # MethodOptions
              THEN /\ header' = HeaderSet(HeaderSet(h, "Content-Type",
                                              <<"text/plain; charset=utf-8">>),
                                          "X-Content-Type-Options", <<"nosniff">>)
                   /\ HttpError
              ELSE /\ header' = h
                   /\ UNCHANGED <<status, body>>
    /\ hpc' = "served"
    /\ UNCHANGED <<route, req, called, match>>

NextMethod ==
    \/ \E r \in Routes, m \in RequestMethods : Receive(r, m)
    \/ Dispatch
    \/ NotFound

SpecMethod == Init /\ [][NextMethod]_allvars

Served == hpc = "served"

\* The names an Allow value lists: its pieces between ", ".
RECURSIVE SplitFrom(_, _, _)
SplitFrom(v, i, piece) ==
    IF i > Len(v) THEN <<piece>>
    ELSE IF v[i] = "," /\ i < Len(v) /\ v[i + 1] = " "
         THEN <<piece>> \o SplitFrom(v, i + 2, <<>>)
         ELSE SplitFrom(v, i + 1, Append(piece, v[i]))

Listed(v) == SplitFrom(v, 1, <<>>)
Count(ss, x) == Cardinality({ i \in 1 .. Len(ss) : ss[i] = x })
Registered(m) == ToUpper(m) \in route

(***************************************************************************)
(* C12. When the table has a handler under the upper-cased request method  *)
(* (so "get" behaves like "GET", and a registered OPTIONS entry overrides  *)
(* the automatic OPTIONS handling), ServeHTTP invokes exactly that handler *)
(* exactly once and itself sets no Allow header and writes no status code. *)
(***************************************************************************)
C12_RegisteredMethodDispatches ==
    (Served /\ Registered(req)) =>
        /\ called = <<ToUpper(req)>>
        /\ "Allow" \notin DOMAIN header
        /\ status = 0

\* A lower-case OPTIONS request was served by the registered OPTIONS handler.
C12_Witness ==
    /\ Served
    /\ req = ToLower(MethodOptions)
    /\ MethodOptions \in route
    /\ called # <<>>

(***************************************************************************)
(* C13. When no handler is registered under the upper-cased request        *)
(* method, ServeHTTP sets the Allow header to the lexicographically sorted,*)
(* ", "-joined list of the upper-case forms of all registered methods      *)
(* together with OPTIONS, where OPTIONS appears exactly once whether or not*)
(* it is registered in any letter case: the names the header lists are in  *)
(* order, OPTIONS is one of them once, and every other name is listed once *)
(* for each key of the table it is the upper-case form of.                 *)
(***************************************************************************)
C13_AllowListsRegisteredMethods ==
    (Served /\ ~Registered(req)) =>
        /\ "Allow" \in DOMAIN header
        /\ LET names == Listed(header["Allow"])
           IN  /\ \A i \in 1 .. (Len(names) - 1) :
                     ~StringLess(names[i + 1], names[i])
               /\ Count(names, MethodOptions) = 1
               /\ \A n \in (Range(names) \cup { ToUpper(k) : k \in route })
                           \ {MethodOptions} :
                     Count(names, n) = Cardinality({ k \in route : ToUpper(k) = n })

\* An unregistered request met a table that holds OPTIONS in lower case and
\* two more methods.
C13_Witness ==
    /\ Served
    /\ ~Registered(req)
    /\ ToLower(MethodOptions) \in route
    /\ Cardinality(route) = MaxRoute

(***************************************************************************)
(* C14. ServeHTTP itself produces status 405 exactly when no handler is    *)
(* registered under the upper-cased request method and that method is not  *)
(* OPTIONS; for an unregistered OPTIONS request (in any letter case) it    *)
(* writes no status code, so the response stays the 200 default with only  *)
(* the Allow header set.                                                   *)
(***************************************************************************)
C14_StatusOnlyForOtherMethods ==
    Served =>
        /\ status = StatusMethodNotAllowed
              <=> (~Registered(req) /\ ToUpper(req) # MethodOptions)
        /\ (~Registered(req) /\ ToUpper(req) = MethodOptions) =>
              /\ status = 0
              /\ DOMAIN header = {"Allow"}
              /\ body = <<>>
        /\ status \in {0, StatusMethodNotAllowed}

\* An OPTIONS request in lower case was answered without a registered handler.
C14_Witness ==
    /\ Served
    /\ req = ToLower(MethodOptions)
    /\ ~Registered(req)
    /\ route # {}

\* The header names only methods that dispatch, each once.
AllowConsistent ==
    LET names == Listed(header["Allow"])
    IN  /\ \A n \in Range(names) \ {MethodOptions} : Registered(n)
        /\ \A n \in Range(names) : Count(names, n) = 1

UpperCaseTable == \A k \in route : k = ToUpper(k)

(***************************************************************************)
(* C20, as stated. The Allow header is consistent with dispatch for every  *)
(* table, including tables whose keys are not upper-case: every method     *)
(* named in an Allow header that ServeHTTP produces, other than OPTIONS, is*)
(* a method for which a request is dispatched to a registered handler      *)
(* rather than answered with 405, and no method is named twice.            *)
(***************************************************************************)
C20_AllowConsistentForEveryTable ==
    (Served /\ "Allow" \in DOMAIN header) => AllowConsistent

(***************************************************************************)
(* C20, amended. The same for every table whose keys are all upper-case,   *)
(* which is what Method assumes of its keys.                               *)
(***************************************************************************)
C20_AllowConsistentForUpperCaseTables ==
    (Served /\ "Allow" \in DOMAIN header /\ UpperCaseTable) => AllowConsistent

\* An Allow header was produced from an upper-case table that holds OPTIONS
\* and another method.
C20_Witness ==
    /\ Served
    /\ "Allow" \in DOMAIN header
    /\ UpperCaseTable
    /\ MethodOptions \in route
    /\ Cardinality(route) > 1

(***************************************************************************)
(* Match as a function of its arguments: the loop of lines 37-83 run from  *)
(* the locals s to its end.  The outcome is "true", "false" or "panic",    *)
(* with vars as the call leaves it.                                        *)
(***************************************************************************)
Entry(p, t, vs) ==
    [p |-> p, t |-> t, vars |-> vs, key |-> <<>>, nx |-> 0, vx |-> 0,
     px |-> 0, tx |-> 0, nextPx |-> 0, nextTx |-> 0]

Outcome(o, vs) == [out |-> o, vars |-> vs]

\* Lines 43 and 85: vars.Set(key, text[vx:tx]).
SetSpan(s) == VarsSet(s.vars, s.key, Slice(s.t, s.vx, s.tx))

RECURSIVE Loop(_)
Loop(s) ==
    LET lp == Len(s.p)
        lt == Len(s.t)
        c == IF s.px < lp THEN At(s.p, s.px) ELSE ""
        afterBrace == s.px > 0 /\ At(s.p, s.px - 1) = "}"
        \* Lines 73-82.
        retry ==
            IF s.nextTx <= lt
            THEN IF s.nextPx >= lp THEN Outcome("panic", s.vars)
                 ELSE IF At(s.p, s.nextPx) \in Wildcards
                 THEN IF s.nextTx = 0 THEN Outcome("panic", s.vars)
                      ELSE IF At(s.t, s.nextTx - 1) # "/"
                      THEN Loop([s EXCEPT !.px = s.nextPx, !.tx = s.nextTx])
                      ELSE Outcome("false", VarsReset(s.vars))
                 ELSE Outcome("false", VarsReset(s.vars))
            ELSE Outcome("false", VarsReset(s.vars))
        \* Lines 58-69.
        name ==
            LET j == IndexByte(s.p, s.px + 1, "}")
                fresh == s.nx < s.px + 1
                nx1 == IF fresh THEN s.px + 1 + j ELSE s.nx
                key1 == IF fresh THEN Slice(s.p, s.px + 1, nx1) ELSE s.key
            IN  IF fresh /\ nx1 < s.px + 1 THEN Outcome("panic", s.vars)
                ELSE Loop([s EXCEPT !.nextPx = s.px, !.nextTx = s.tx + 1,
                                    !.vx = IF fresh THEN s.tx ELSE s.vx,
                                    !.nx = nx1, !.key = key1,
                                    !.px = s.px + 1 + Len(key1) + 1])
    IN  IF ~(s.px < lp \/ s.tx < lt)
        THEN \* Lines 84-87.
             IF afterBrace
             THEN IF s.vx > s.tx THEN Outcome("panic", s.vars)
                  ELSE Outcome("true", SetSpan(s))
             ELSE Outcome("true", s.vars)
        ELSE IF s.px >= lp THEN retry
        ELSE IF c = "?"
        THEN IF s.tx < lt /\ At(s.t, s.tx) # "/"
             THEN Loop([s EXCEPT !.px = s.px + 1,
                                 !.tx = s.tx + DecodeRuneLen(s.t, s.tx)])
             ELSE retry
        ELSE IF c = "*"
        THEN Loop([s EXCEPT !.nextPx = s.px, !.nextTx = s.tx + 1, !.px = s.px + 1])
        ELSE IF c = "{" THEN name
        ELSE IF s.tx < lt /\ At(s.t, s.tx) = c
        THEN IF afterBrace
             THEN IF s.vx > s.tx THEN Outcome("panic", s.vars)
                  ELSE Loop([s EXCEPT !.vars = SetSpan(s),
                                      !.px = s.px + 1, !.tx = s.tx + 1])
             ELSE Loop([s EXCEPT !.px = s.px + 1, !.tx = s.tx + 1])
        ELSE retry

MatchOf(p, t, vs) == Loop(Entry(p, t, vs))

\* What the call in progress has come to, once it is over.
Over == pc \in {"done", "panic"}
Result ==
    Outcome(IF pc = "panic" THEN "panic" ELSE IF ret THEN "true" ELSE "false", vars)

\* The loop taken step by step ends as the loop run in one go.
StepsAgreeWithLoop == Over => Result = MatchOf(pattern, text, vars0)

(***************************************************************************)
(* Two invocations of Match on the same pattern and text, each with its    *)
(* own Vars and its own locals.  One of them holds the processor and steps;*)
(* the other is suspended in peer; the scheduler switches them at will.    *)
(***************************************************************************)
\* A concurrent pair is called on patterns and texts of this many terms and
\* code points together.
MaxPairSize == 3

\* What belongs to one invocation: its Vars, its locals, its history.
Context ==
    [vars |-> vars, key |-> key, nx |-> nx, vx |-> vx, px |-> px, tx |-> tx,
     nextPx |-> nextPx, nextTx |-> nextTx, pc |-> pc, ret |-> ret, at |-> at,
     sets |-> sets, vars0 |-> vars0, resumes |-> resumes]

\* The Vars the second invocation brings.
PeerVars == { <<>>, <<[k |-> <<"a">>, v |-> <<"/">>]>> }

\* go Match(p, t, &vars) twice over.
CallPair ==
    /\ pc = "idle"
    /\ peer = <<>>
    /\ \E i \in 0 .. MaxPairSize : \E j \in 0 .. (MaxPairSize - i) :
          CallOn(Terms, i, Chars, j)
    /\ \E vs \in PeerVars :
          peer' = [Context EXCEPT !.vars = vs, !.vars0 = vs, !.pc = "loop",
                                  !.at = at', !.resumes = resumes']
    /\ UNCHANGED fuel

SwitchSharingRetryPoint ==
    /\ peer # <<>>
    /\ peer' = Context
    /\ vars' = peer.vars
    /\ key' = peer.key
    /\ nx' = peer.nx /\ vx' = peer.vx /\ px' = peer.px /\ tx' = peer.tx
    /\ pc' = peer.pc
    /\ ret' = peer.ret
    /\ at' = peer.at
    /\ sets' = peer.sets
    /\ vars0' = peer.vars0
    /\ resumes' = peer.resumes
    /\ UNCHANGED <<pattern, text, nextPx, nextTx, fuel, got, http>>

\* The scheduler suspends the running invocation and resumes the other: each
\* has its own key, nx, vx, px, tx, nextPx, nextTx (lines 32-36) and vars.
Switch ==
    /\ peer # <<>>
    /\ peer' = Context
    /\ vars' = peer.vars
    /\ key' = peer.key
    /\ nx' = peer.nx /\ vx' = peer.vx /\ px' = peer.px /\ tx' = peer.tx
    /\ nextPx' = peer.nextPx /\ nextTx' = peer.nextTx
    /\ pc' = peer.pc
    /\ ret' = peer.ret
    /\ at' = peer.at
    /\ sets' = peer.sets
    /\ vars0' = peer.vars0
    /\ resumes' = peer.resumes
    /\ UNCHANGED <<pattern, text, fuel, got, http>>

NextPair ==
    \/ CallPair
    \/ MatchStep
    \/ Switch

SpecPair == Init /\ [][NextPair]_allvars

PeerOver == peer # <<>> /\ peer.pc \in {"done", "panic"}
PeerResult ==
    Outcome(IF peer.pc = "panic" THEN "panic"
            ELSE IF peer.ret THEN "true" ELSE "false", peer.vars)

(***************************************************************************)
(* C15. Two Match invocations that run concurrently with arbitrarily       *)
(* interleaved steps on the same pattern and text strings, each with its   *)
(* own Vars, each return the same boolean and leave their own vars in the  *)
(* same state as when run alone; neither writes to the pattern, the text or*)
(* the other call's vars.                                                  *)
(***************************************************************************)
C15_EndsAsAlone ==
    /\ Over => Result = MatchOf(pattern, text, vars0)
    /\ PeerOver => PeerResult = MatchOf(pattern, text, peer.vars0)

C15_StepIsLocal == MatchStep => UNCHANGED <<pattern, text, peer>>

C15_ConcurrentCallsDoNotInterfere ==
    [](C15_EndsAsAlone) /\ [][C15_StepIsLocal]_allvars

\* Both invocations are over, each was suspended in the middle of its loop,
\* and both bound a name.
C15_Witness ==
    /\ Over
    /\ PeerOver
    /\ vars # <<>>
    /\ peer.vars # <<>>
    /\ vars # peer.vars
    /\ \E i \in DOMAIN resumes : resumes[i] # <<>>

\* The bytes of the alphabet that a pattern takes literally.
Literals == {"a", "/", "}"}

\* The pattern ends in a named term {n}.
EndsInName ==
    /\ PatternTerms # <<>>
    /\ PatternTerms[Len(PatternTerms)].kind = "name"
    /\ At(pattern, LenP - 1) = "}"

\* Match(P c, T c) does as the finished Match(P, T) did.
SameWithLiteral(c) ==
    LET r == MatchOf(Append(pattern, c), Append(text, c), vars0)
    IN  /\ r.out = "true" <=> Result.out = "true"
        /\ r.out = "true" => r.vars = vars

(***************************************************************************)
(* C18. Exit-path finalization and literal-triggered finalization compute  *)
(* identical spans: for every pattern P that ends in a named term {n},     *)
(* every text T and every literal character c, Match(P, T) succeeds exactly*)
(* when Match(P followed by c, T followed by c) succeeds, and on success   *)
(* both calls bind n (and every other name) to the same value.             *)
(***************************************************************************)
C18_LiteralAfterNameBindsTheSame ==
    (Over /\ EndsInName) => \A c \in Literals : SameWithLiteral(c)

\* The wildcards of the pattern that the call has visited.
Visited == { p \in 0 .. (LenP - 1) : At(pattern, p) \in Wildcards /\ at[p] >= 0 }

\* The text index of the last visit of the wildcard at p.
LastVisit(p) ==
    IF resumes[p] = <<>> THEN at[p] ELSE resumes[p][Len(resumes[p])]

(***************************************************************************)
(* C16. Match keeps a single retry point that only moves forward: during   *)
(* one call nextPx never decreases (a '*' or {name} earlier in the pattern *)
(* than the most recently visited one is never resumed), every resume sets *)
(* tx to exactly one more than the text position at the last visit of that *)
(* wildcard, and successive resumes from the same wildcard use strictly    *)
(* increasing text positions, so each wildcard is resumed at most len(text)*)
(* times.                                                                  *)
(***************************************************************************)
C16_RetryStep ==
    /\ (pc = "loop" /\ pc' # "idle") => nextPx' >= nextPx
    /\ Retry =>
          /\ nextPx \in Visited
          /\ \A p \in Visited : p <= nextPx
          /\ px' = nextPx
          /\ tx' = LastVisit(nextPx) + 1

C16_ResumesIncrease ==
    pc # "idle" =>
        \A p \in DOMAIN resumes :
            /\ \A i \in 1 .. (Len(resumes[p]) - 1) : resumes[p][i] < resumes[p][i + 1]
            /\ \A i \in 1 .. Len(resumes[p]) : resumes[p][i] \in 1 .. LenT
            /\ Len(resumes[p]) <= LenT

C16_RetryPointMovesForward == [](C16_ResumesIncrease) /\ [][C16_RetryStep]_allvars

\* The retry point moved on from one wildcard to a later one, which was then
\* resumed twice.
C16_Witness ==
    /\ Over
    /\ \E p, q \in Visited :
          /\ q < p
          /\ Len(resumes[p]) >= 2

(***************************************************************************)
(* One call of Match that is not held up: an iteration of the loop that    *)
(* can run does run.                                                       *)
(***************************************************************************)
SpecLive == Init /\ [][Next]_allvars /\ WF_allvars(MatchStep)

\* The loop stops: Match returns or panics.
LoopStops == (pc = "loop") ~> Over

(***************************************************************************)
(* C17. Match terminates on every pattern and text: every execution of its *)
(* loop eventually reaches a return (true or false), with no input on which*)
(* the retry step repeats forever.                                         *)
(***************************************************************************)
C17_LoopReachesReturn == (pc = "loop") ~> (pc = "done")

(***************************************************************************)
(* One Vars handed to one Match call after another, as ExampleMatch does.  *)
(***************************************************************************)
NextReuse ==
    \/ CallMatchReuse
    \/ MatchStep
    \/ Return

SpecReuse == Init /\ [][NextReuse]_allvars

(***************************************************************************)
(* C19. When one Vars is reused across consecutive Match calls with        *)
(* different patterns, after every call that returns true vars contains    *)
(* only bindings for names of that call's pattern: no key bound by an      *)
(* earlier successful Match (and absent from the current pattern) is still *)
(* present.                                                                *)
(***************************************************************************)
C19_OnlyNamesOfThisPattern == Succeeded => Keys(vars) \subseteq Names

====
